---------------------------- MODULE Spec2Model ----------------------------
(***************************************************************************)
(* Model of the biluppgifter.se client: the cookie cache (CookieManager),  *)
(* the page fetcher (BiluppgifterClient._fetch_page), the four public      *)
(* lookup operations and the HTTP layer of server.py.                      *)
(*                                                                         *)
(* Threads are the worker threads of the API server.  They share the       *)
(* module-level cookie_manager and the module-level client of server.py.   *)
(***************************************************************************)
EXTENDS Integers, Sequences, FiniteSets, TLC

\* ------------------------------------------------------------- bounds
NThreads == 2        \* worker threads
MaxCalls == 2        \* top-level operations started in one run
StartTime == 60      \* time.time() at process start (last_refresh is 0)
TickStep == 60       \* seconds between two observations of the clock
MaxTime == 130       \* the clock stops advancing here

\* ------------------------------------------------- program constants
min_refresh_interval == 60
_max_retries == 2

Threads == 1..NThreads

\* The cookie names _refresh_cookies keeps (the allow-list) and the theme.
TokenNames == {"session", "cf_clearance", "antiforgery"}

\* Cookie values.  A browser session hands out fresh values: they carry the
\* number of the refresh execution that obtained them.
Dark == [src |-> "dark", gen |-> 0]
EnvSet == [src |-> "env", gen |-> 0]
EnvEmpty == [src |-> "empty", gen |-> 0]
BrowserTok(g) == [src |-> "browser", gen |-> g]

\* What os.getenv(name, '') yields for the three tokens in this process.
EnvChoices == { [n \in TokenNames |-> EnvEmpty],
                [n \in TokenNames |-> IF n = "session" THEN EnvEmpty ELSE EnvSet] }

\* The cookie sets a browser context can hold after the visit (restricted to
\* the allow-list: other cookies are dropped by the loop).
FoundChoices == { {}, {"cf_clearance"}, TokenNames }

\* The empty dict.
EmptyDict == [n \in {} |-> Dark]

\* Answers to one requests.get call.
Bodies == {"page_owner", "page_plain"}
Http(s, b) == [kind |-> "http", status |-> s, body |-> b]
TimedOut == [kind |-> "timeout", status |-> 0, body |-> ""]
TransportFailed == [kind |-> "error", status |-> 0, body |-> ""]
Answers == { Http(200, b) : b \in Bodies }
           \cup { Http(s, "") : s \in {403, 404, 500} }
           \cup { TimedOut, TransportFailed }

Ops == {"get", "force", "lookup", "profile", "owner", "address"}
LookupOps == Ops \ {"get", "force"}

VARIABLES
  cookies,        \* CookieManager.cookies
  last_refresh,   \* CookieManager.last_refresh
  lock,           \* CookieManager.lock: 0 when free, else the holder
  retry_count,    \* BiluppgifterClient._retry_count of the shared client
  now,            \* time.time()
  env,            \* the BILUPPGIFTER_* environment variables
  execs,          \* history: refresh executions started so far
  last,           \* history: the last completed refresh execution
  ncalls,         \* history: top-level operations started so far
  pc,             \* per thread: position in the code
  frame,          \* per thread: locals of the running calls
  call,           \* per thread: history of the running _fetch_page call
  outcome,        \* per thread: how the last _fetch_page call ended
  result          \* per thread: how the top-level operation ended

vars == <<cookies, last_refresh, lock, retry_count, now, env, execs, last,
          ncalls, pc, frame, call, outcome, result>>

NoFrame == [op |-> "none", stage |-> "none", rfrom |-> "none",
            cookies |-> EmptyDict, found |-> {}, gen |-> 0,
            failed |-> FALSE, fails |-> <<>>, pre |-> EmptyDict,
            during |-> 0, partial |-> FALSE, seen |-> 0]
NoCall == [resp |-> <<>>, nGetExec |-> 0, nForceExec |-> 0, nForce |-> 0,
           rc0 |-> 0, prev |-> EmptyDict, ex0 |-> 0, exF |-> 0]
NoOutcome == [kind |-> "none", exc |-> "none", status |-> 0, body |-> ""]
\* A dict object is known by the line that created it and by the refresh
\* execution (line 90, 109) or the thread (line 33) that ran the line.
NoObject == [line |-> 0, n |-> 0]

NoResult == [ret |-> "none", exc |-> "none", kind |-> "none", http |-> 0,
             value |-> EmptyDict, obj |-> NoObject, got |-> EmptyDict,
             touched |-> FALSE]
NoLast == [n |-> 0, at |-> 0, ok |-> FALSE, stamped |-> FALSE,
           pre |-> EmptyDict, stamp0 |-> 0]

Init ==
  /\ cookies = EmptyDict
  /\ last_refresh = 0
  /\ lock = 0
  /\ retry_count = 0
  /\ now = StartTime
  /\ env \in EnvChoices
  /\ execs = 0
  /\ last = NoLast
  /\ ncalls = 0
  /\ pc = [t \in Threads |-> "idle"]
  /\ frame = [t \in Threads |-> NoFrame]
  /\ call = [t \in Threads |-> NoCall]
  /\ outcome = [t \in Threads |-> NoOutcome]
  /\ result = [t \in Threads |-> NoResult]

\* The clock advances.
Tick ==
  /\ now + TickStep <= MaxTime
  /\ now' = now + TickStep
  /\ UNCHANGED <<cookies, last_refresh, lock, retry_count, env, execs, last,
                 ncalls, pc, frame, call, outcome, result>>

\* ------------------------------------------------------ CookieManager

\* Variant: the lock is not honoured.
LockIgnored == TRUE

\* `with self.lock`: the lock can be taken when no thread holds it.
LockFree == lock = 0

\* Variant: a dict with nothing but the theme counts as empty.
IsEmptyOfTokens(c) == DOMAIN c \subseteq {"theme"}

\* `if not self.cookies`
IsEmpty(c) == DOMAIN c = {}

\* `now - self.last_refresh < self.min_refresh_interval`
InCooldown(t_now, stamp) == t_now - stamp < min_refresh_interval

\* Variant: the theme is set in the dict that is there, which is kept.
ThemeKept ==
  [n \in DOMAIN cookies \cup {"theme"} |->
     IF n = "theme" THEN Dark ELSE cookies[n]]

\* `self.cookies = {'theme': 'dark'}`
ThemeOnly == [n \in {"theme"} |-> Dark]

\* The loop over context.cookies(): the allow-listed cookies found are added.
WithTokens(c, found, g) ==
  [n \in DOMAIN c \cup found |-> IF n \in found THEN BrowserTok(g) ELSE c[n]]

\* Variant: the except branch keeps only the environment values that are set.
FallbackOnlySet(e) ==
  [n \in {m \in TokenNames : e[m] = EnvSet} |-> e[n]]

\* The except branch: theme plus the three environment values.
Fallback(e) ==
  [n \in {"theme"} \cup TokenNames |-> IF n = "theme" THEN Dark ELSE e[n]]

\* The number of the refresh execution in progress, 0 when there is none.
Refreshing ==
  IF \E u \in Threads : pc[u] \in {"r_launch", "r_loop"} THEN execs ELSE 0

\* Entering _refresh_cookies, called by get_cookies or force_refresh.
EnterRefresh(t, by, f) ==
  /\ pc' = [pc EXCEPT ![t] = "r_launch"]
  /\ frame' = [frame EXCEPT ![t] = [f EXCEPT !.rfrom = by, !.gen = execs + 1,
                                             !.found = {},
                                             !.failed = FALSE]]
  /\ execs' = execs + 1
  /\ call' = [call EXCEPT ![t].nGetExec = IF by = "get" THEN @ + 1 ELSE @,
                          ![t].nForceExec = IF by = "force" THEN @ + 1 ELSE @]

\* Leaving _refresh_cookies: back in the caller, the lock still held.
\* `stamped`: the execution got as far as line 101.
LeaveRefresh(t, failed, stamped) ==
  /\ pc' = [pc EXCEPT ![t] = IF frame[t].rfrom = "get" THEN "get_ret"
                                                       ELSE "force_ret"]
  /\ frame' = [frame EXCEPT ![t].failed = failed, ![t].found = {},
                             ![t].gen = 0, ![t].pre = EmptyDict]
  /\ last' = [n |-> last.n + 1, at |-> now, ok |-> ~failed,
              stamped |-> stamped,
              pre |-> IF pc[t] = "r_launch" THEN cookies ELSE frame[t].pre,
              stamp0 |-> last_refresh]

\* Variant: the except branch only logs and leaves the dict as it is.
RefreshFailedKeeps(t) ==
  /\ cookies' = cookies
  /\ LeaveRefresh(t, TRUE, FALSE)

\* The except branch of _refresh_cookies.
RefreshFailed(t) ==
  /\ cookies' = Fallback(env)
  /\ LeaveRefresh(t, TRUE, FALSE)

\* A refresh execution has reset the dict and has not yet filled it.
BeingFilled == \E u \in Threads : pc[u] = "r_loop"

\* The dict object self.cookies is bound to: the one of __init__, or the
\* one the last assignment of a refresh execution created (line 90 on the
\* browser path, line 109 in the except branch).
CacheObject ==
  IF BeingFilled THEN [line |-> 90, n |-> execs]
  ELSE IF last.n = 0 THEN [line |-> 23, n |-> 0]
  ELSE [line |-> IF last.ok THEN 90 ELSE 109, n |-> last.n]

\* Variant: get_cookies returns self.cookies itself.
copy_alias(t, o) == o

\* `self.cookies.copy()`: a new dict object, handed to caller t.
copy(t, o) == [line |-> 33, n |-> t]

\* get_cookies returns to its caller, which has the copy in `cookies`.
GetReturns(t, f) ==
  IF f.op = "get"
    THEN /\ pc' = [pc EXCEPT ![t] = "op_done"]
         /\ frame' = [frame EXCEPT ![t] = [f EXCEPT !.rfrom = "none",
                                                    !.failed = FALSE,
                                                    !.partial = BeingFilled]]
         /\ result' = [result EXCEPT ![t] =
              [NoResult EXCEPT !.ret = "ok", !.value = cookies,
                               !.obj = copy(t, CacheObject),
                               !.got = cookies]]
    ELSE /\ pc' = [pc EXCEPT ![t] = "request"]
         /\ frame' = [frame EXCEPT ![t] = [f EXCEPT !.cookies = cookies,
                                                    !.rfrom = "none",
                                                    !.failed = FALSE,
                                                    !.partial = BeingFilled,
                                                    !.seen = execs]]
         /\ UNCHANGED result

\* Variant: after force_refresh the retry is sent with the cookies captured
\* for the rejected request.
ForceReturnsReuse(t, f) ==
  /\ call' = [call EXCEPT ![t].exF = IF f.op = "force" THEN 0 ELSE execs]
  /\ IF f.op = "force"
       THEN /\ pc' = [pc EXCEPT ![t] = "op_done"]
            /\ frame' = [frame EXCEPT ![t] = [f EXCEPT !.rfrom = "none",
                                                       !.failed = FALSE]]
            /\ result' = [result EXCEPT ![t] = [NoResult EXCEPT !.ret = "ok"]]
       ELSE /\ pc' = [pc EXCEPT ![t] = "request"]
            /\ frame' = [frame EXCEPT ![t] = [f EXCEPT !.rfrom = "none",
                                                       !.failed = FALSE,
                                                       !.cookies = call[t].prev,
                                                       !.seen = call[t].ex0]]
            /\ UNCHANGED result

\* force_refresh returns to its caller: the CLI, or _fetch_page's retry.
ForceReturns(t, f) ==
  /\ frame' = [frame EXCEPT ![t] = [f EXCEPT !.rfrom = "none",
                                             !.failed = FALSE,
                                             !.during = IF f.op = "force"
                                                          THEN 0
                                                          ELSE Refreshing]]
  /\ call' = [call EXCEPT ![t].exF = IF f.op = "force" THEN 0 ELSE execs]
  /\ IF f.op = "force"
       THEN /\ pc' = [pc EXCEPT ![t] = "op_done"]
            /\ result' = [result EXCEPT ![t] = [NoResult EXCEPT !.ret = "ok"]]
       ELSE /\ pc' = [pc EXCEPT ![t] = "get_lock"]
            /\ UNCHANGED result

\* Variant: get_cookies reads the dict without taking the lock.
get_cookies_unlocked(t) ==
  /\ pc[t] = "get_lock"
  /\ IF IsEmpty(cookies)
       THEN /\ lock' = t
            /\ EnterRefresh(t, "get", frame[t])
            /\ UNCHANGED result
       ELSE /\ GetReturns(t, frame[t])
            /\ UNCHANGED <<lock, execs, call>>
  /\ UNCHANGED <<cookies, last_refresh, retry_count, now, env, last, ncalls,
                 outcome>>

\* get_cookies, line 30-33.  With the dict empty the thread takes the lock
\* and enters _refresh_cookies; otherwise it takes the lock, copies the
\* dict and releases the lock.
get_cookies(t) ==
  /\ pc[t] = "get_lock"
  /\ LockFree
  /\ IF IsEmpty(cookies)
       THEN /\ lock' = t
            /\ EnterRefresh(t, "get", frame[t])
            /\ UNCHANGED result
       ELSE /\ GetReturns(t, frame[t])
            /\ UNCHANGED <<lock, execs, call>>
  /\ UNCHANGED <<cookies, last_refresh, retry_count, now, env, last, ncalls,
                 outcome>>

\* get_cookies, line 33, after _refresh_cookies: copy, release, return.
get_cookies_return(t) ==
  /\ pc[t] = "get_ret"
  /\ lock' = 0
  /\ GetReturns(t, frame[t])
  /\ UNCHANGED <<cookies, last_refresh, retry_count, now, env, execs, last,
                 ncalls, call, outcome>>

\* force_refresh, line 37-42.  In the cooldown the thread takes the lock,
\* reads the clock and returns; otherwise it enters _refresh_cookies.
force_refresh(t) ==
  /\ pc[t] = "force_lock"
  /\ LockFree
  /\ IF InCooldown(now, last_refresh)
       THEN /\ ForceReturns(t, frame[t])
            /\ UNCHANGED <<lock, execs>>
       ELSE /\ lock' = t
            /\ EnterRefresh(t, "force", frame[t])
            /\ UNCHANGED result
  /\ UNCHANGED <<cookies, last_refresh, retry_count, now, env, last, ncalls,
                 outcome>>

\* force_refresh, end of line 42, after _refresh_cookies: release, return.
force_refresh_return(t) ==
  /\ pc[t] = "force_ret"
  /\ lock' = 0
  /\ ForceReturns(t, frame[t])
  /\ UNCHANGED <<cookies, last_refresh, retry_count, now, env, execs, last,
                 ncalls, outcome>>

\* _refresh_cookies, line 46-92: launch the browser, navigate, wait for the
\* challenge, read the context's cookies and reset the dict to the theme.
\* A failure of any of these steps is caught by the except branch.
refresh_browse(t, ok, found) ==
  /\ pc[t] = "r_launch"
  /\ IF ok
       THEN /\ cookies' = ThemeOnly
            /\ pc' = [pc EXCEPT ![t] = "r_loop"]
            /\ frame' = [frame EXCEPT ![t].found = found,
                                       ![t].pre = cookies]
            /\ UNCHANGED last
       ELSE RefreshFailed(t)
  /\ UNCHANGED <<last_refresh, lock, retry_count, now, env, execs, ncalls,
                 call, outcome, result>>

\* _refresh_cookies, line 94-114: keep the allow-listed cookies, stamp the
\* time, close the browser (and leave the with block).  A failure of the
\* close happens after the stamp and is caught by the except branch.
refresh_store(t, ok) ==
  /\ pc[t] = "r_loop"
  /\ last_refresh' = now
  /\ IF ok
       THEN /\ cookies' = WithTokens(cookies, frame[t].found, frame[t].gen)
            /\ LeaveRefresh(t, FALSE, TRUE)
       ELSE /\ cookies' = Fallback(env)
            /\ LeaveRefresh(t, TRUE, TRUE)
  /\ UNCHANGED <<lock, retry_count, now, env, execs, ncalls, call, outcome,
                 result>>

\* ------------------------------------------------- BiluppgifterClient

\* Variant: the comparison is off by one.
CanRetryInclusive(c) == c <= _max_retries

\* `self._retry_count < self._max_retries`
CanRetry(c) == c < _max_retries

\* Variant: the exception does not carry the status code.
RaisedNoStatus(kind, exc, status) ==
  [kind |-> kind, exc |-> exc, status |-> 0, body |-> ""]

\* `raise PermissionError(...)`, `raise ConnectionError(f"HTTP {status} ...")`
Raised(kind, exc, status) ==
  [kind |-> kind, exc |-> exc, status |-> status, body |-> ""]

\* Variant: the body is stripped before it is returned.
ReturnedStripped(body) ==
  [kind |-> "Success", exc |-> "none", status |-> 200, body |-> ""]

\* `return r.text`
Returned(body) ==
  [kind |-> "Success", exc |-> "none", status |-> 200, body |-> body]

\* Line 148-169: what _fetch_page does with the answer r when the retry
\* counter is c: the new counter, and the outcome ("retry": refresh and
\* call _fetch_page again).
Handle(r, c) ==
  IF r.kind = "timeout"
    THEN [count |-> c, out |-> Raised("Timeout", "ConnectionError", 0)]
  ELSE IF r.kind = "error"
    THEN [count |-> c, out |-> Raised("TransportError", "RequestsError", 0)]
  ELSE IF r.status = 403
    THEN IF CanRetry(c)
           THEN [count |-> c + 1, out |-> Raised("retry", "none", 403)]
           ELSE [count |-> 0, out |-> Raised("Forbidden", "PermissionError", 403)]
  ELSE IF r.status # 200
    THEN [count |-> 0, out |-> Raised("UpstreamError", "ConnectionError", r.status)]
  ELSE [count |-> 0, out |-> Returned(r.body)]

\* A _fetch_page call begins (line 137): it calls get_cookies.
BeginFetch(t, f, stg) ==
  /\ pc' = [pc EXCEPT ![t] = "get_lock"]
  /\ frame' = [frame EXCEPT ![t] = [f EXCEPT !.stage = stg,
                                             !.during = Refreshing]]
  /\ call' = [call EXCEPT ![t] = [NoCall EXCEPT !.rc0 = retry_count]]
  /\ outcome' = [outcome EXCEPT ![t] = NoOutcome]

\* Variant: on a 403 the request is retried without force_refresh().
fetch_response_no_refresh(t, r) ==
  /\ pc[t] = "request"
  /\ LET h == Handle(r, retry_count) IN
       /\ retry_count' = h.count
       /\ call' = [call EXCEPT ![t].resp = Append(@, r)]
       /\ IF h.out.kind = "retry"
            THEN /\ pc' = [pc EXCEPT ![t] = "get_lock"]
                 /\ UNCHANGED outcome
            ELSE /\ pc' = [pc EXCEPT ![t] = "f_done"]
                 /\ outcome' = [outcome EXCEPT ![t] = h.out]
  /\ frame' = [frame EXCEPT ![t].cookies = EmptyDict, ![t].during = 0,
                             ![t].partial = FALSE, ![t].seen = 0]
  /\ UNCHANGED <<cookies, last_refresh, lock, now, env, execs, last, ncalls,
                 result>>

\* Line 140-169: the GET is sent with the cookies get_cookies returned, and
\* its answer r is handled.
fetch_response(t, r) ==
  /\ pc[t] = "request"
  /\ LET h == Handle(r, retry_count) IN
       /\ retry_count' = h.count
       /\ call' = [call EXCEPT ![t].resp = Append(@, r),
                               ![t].nForce = IF h.out.kind = "retry"
                                               THEN @ + 1 ELSE @,
                               ![t].prev = IF h.out.kind = "retry"
                                             THEN frame[t].cookies
                                             ELSE EmptyDict,
                               ![t].ex0 = IF h.out.kind = "retry"
                                            THEN frame[t].seen ELSE 0,
                               ![t].exF = 0]
       /\ IF h.out.kind = "retry"
            THEN /\ pc' = [pc EXCEPT ![t] = "force_lock"]
                 /\ UNCHANGED outcome
            ELSE /\ pc' = [pc EXCEPT ![t] = "f_done"]
                 /\ outcome' = [outcome EXCEPT ![t] = h.out]
  /\ frame' = [frame EXCEPT ![t].cookies = EmptyDict, ![t].during = 0,
                             ![t].partial = FALSE, ![t].seen = 0]
  /\ UNCHANGED <<cookies, last_refresh, lock, now, env, execs, last, ncalls,
                 result>>

\* ------------------------------------------------- public operations

IsFailure(out) == out.kind # "Success"

\* Variant: lookup_owner_profile without the try/except around the vehicle
\* list.
AfterFetchNoExcept(o, stg, out) ==
  IF IsFailure(out) THEN "raise"
  ELSE IF stg = "htmx" THEN "return"
  ELSE IF stg = "profile" THEN "htmx"
  ELSE IF o = "lookup" THEN "return"
  ELSE IF out.body = "page_owner" THEN "profile"
  ELSE "return"

\* What a lookup operation does when its _fetch_page call for `stg` ended
\* with `out`: the next page to fetch, "raise" or "return".
AfterFetch(o, stg, out) ==
  IF stg = "htmx" THEN "return"
  ELSE IF IsFailure(out) THEN "raise"
  ELSE IF stg = "profile" THEN "htmx"
  ELSE IF o = "lookup" THEN "return"
  ELSE IF out.body = "page_owner" THEN "profile"
  ELSE "return"

\* Variant: one except clause for OSError, the common base of both errors.
_handle_oserror(ret, exc) ==
  IF ret = "ok" THEN 200
  ELSE IF exc \in {"PermissionError", "ConnectionError"} THEN 502
  ELSE 500

\* server.py _handle and the framework's default for other exceptions.
_handle(ret, exc) ==
  IF ret = "ok" THEN 200
  ELSE IF exc = "PermissionError" THEN 403
  ELSE IF exc = "ConnectionError" THEN 502
  ELSE 500

Begin(t, o) ==
  /\ pc[t] = "idle"
  /\ ncalls < MaxCalls
  /\ ncalls' = ncalls + 1

\* A direct get_cookies() call.
call_get_cookies(t) ==
  /\ Begin(t, "get")
  /\ pc' = [pc EXCEPT ![t] = "get_lock"]
  /\ frame' = [frame EXCEPT ![t] = [NoFrame EXCEPT !.op = "get",
                                                   !.during = Refreshing]]
  /\ UNCHANGED <<cookies, last_refresh, lock, retry_count, now, env, execs,
                 last, call, outcome, result>>

\* A direct force_refresh() call (the CLI's refresh command).
call_force_refresh(t) ==
  /\ Begin(t, "force")
  /\ pc' = [pc EXCEPT ![t] = "force_lock"]
  /\ frame' = [frame EXCEPT ![t] = [NoFrame EXCEPT !.op = "force"]]
  /\ call' = [call EXCEPT ![t] = [NoCall EXCEPT !.nForce = 1]]
  /\ UNCHANGED <<cookies, last_refresh, lock, retry_count, now, env, execs,
                 last, outcome, result>>

\* One of the four endpoints calls its lookup operation.
call_lookup(t, o) ==
  /\ Begin(t, o)
  /\ BeginFetch(t, [NoFrame EXCEPT !.op = o],
                IF o = "profile" THEN "profile" ELSE "vehicle")
  /\ UNCHANGED <<cookies, last_refresh, lock, retry_count, now, env, execs,
                 last, result>>

\* A _fetch_page call of a lookup operation has ended.
lookup_continue(t) ==
  /\ pc[t] = "f_done"
  /\ LET nxt == AfterFetch(frame[t].op, frame[t].stage, outcome[t])
         f == [frame[t] EXCEPT !.fails = IF IsFailure(outcome[t])
                                           THEN Append(@, [stage |-> frame[t].stage,
                                                           kind |-> outcome[t].kind])
                                           ELSE @]
     IN IF nxt \in {"profile", "htmx"}
          THEN /\ BeginFetch(t, f, nxt)
               /\ UNCHANGED result
          ELSE /\ pc' = [pc EXCEPT ![t] = "op_done"]
               /\ frame' = [frame EXCEPT ![t] = f]
               /\ result' = [result EXCEPT ![t] =
                    IF nxt = "raise"
                      THEN [NoResult EXCEPT
                              !.ret = "raise", !.exc = outcome[t].exc,
                              !.kind = outcome[t].kind,
                              !.http = _handle("raise", outcome[t].exc)]
                      ELSE [NoResult EXCEPT
                              !.ret = "ok",
                              !.http = _handle("ok", "none")]]
               /\ call' = [call EXCEPT ![t] = NoCall]
               /\ outcome' = [outcome EXCEPT ![t] = NoOutcome]
  /\ UNCHANGED <<cookies, last_refresh, lock, retry_count, now, env, execs,
                 last, ncalls>>

\* A value the caller of get_cookies() puts into a dict.
CallerTok == [src |-> "caller", gen |-> 0]

\* `d['session'] = ...` on a dict with the items v.
Modified(v) ==
  [n \in DOMAIN v \cup {"session"} |->
     IF n = "session" THEN CallerTok ELSE v[n]]

\* The caller of a direct get_cookies() call changes the mapping it was
\* handed.  The change is seen through every reference to that dict object.
caller_modifies(t) ==
  /\ pc[t] = "op_done"
  /\ frame[t].op = "get"
  /\ ~result[t].touched
  /\ LET o == result[t].obj
         nv == Modified(result[t].value)
     IN /\ result' = [u \in Threads |->
                        IF u = t
                          THEN [result[u] EXCEPT !.value = nv, !.touched = TRUE]
                        ELSE IF result[u].obj = o
                          THEN [result[u] EXCEPT !.value = nv]
                        ELSE result[u]]
        /\ cookies' = IF CacheObject = o THEN nv ELSE cookies
  /\ UNCHANGED <<last_refresh, lock, retry_count, now, env, execs, last,
                 ncalls, pc, frame, call, outcome>>

\* The operation's caller has its answer; the thread is free again.
finish(t) ==
  /\ pc[t] = "op_done"
  /\ pc' = [pc EXCEPT ![t] = "idle"]
  /\ frame' = [frame EXCEPT ![t] = NoFrame]
  /\ call' = [call EXCEPT ![t] = NoCall]
  /\ outcome' = [outcome EXCEPT ![t] = NoOutcome]
  /\ result' = [result EXCEPT ![t] = NoResult]
  /\ UNCHANGED <<cookies, last_refresh, lock, retry_count, now, env, execs,
                 last, ncalls>>

\* ----------------------------------------------------- specification

\* Thread t, an API worker whose endpoints are `ops`, starts an operation.
Calls(t, ops) ==
  \/ call_get_cookies(t)
  \/ call_force_refresh(t)
  \/ \E o \in ops : call_lookup(t, o)

\* Thread t takes the next step of the operation it runs.
Run(t) ==
  \/ get_cookies(t)
  \/ get_cookies_return(t)
  \/ force_refresh(t)
  \/ force_refresh_return(t)
  \/ \E ok \in BOOLEAN, found \in FoundChoices : refresh_browse(t, ok, found)
  \/ \E ok \in BOOLEAN : refresh_store(t, ok)
  \/ \E r \in Answers : fetch_response(t, r)
  \/ lookup_continue(t)
  \/ finish(t)

\* Threads interleave freely.  The endpoint is /api/vehicle (lookup: one
\* _fetch_page call per request).
Next == Tick \/ \E t \in Threads : Calls(t, {"lookup"}) \/ Run(t)

Spec == Init /\ [][Next]_vars

\* Calls do not overlap: an operation starts only while every other thread
\* is idle.  All four endpoints are served.
Alone(t) == \A u \in Threads \ {t} : pc[u] = "idle"

SeqNext ==
  Tick \/ \E t \in Threads : (Alone(t) /\ Calls(t, LookupOps)) \/ Run(t)

SeqSpec == Init /\ [][SeqNext]_vars

\* Every caller calls get_cookies() and nothing else.
GetNext ==
  \/ Tick
  \/ \E t \in Threads :
       \/ call_get_cookies(t)
       \/ get_cookies(t)
       \/ get_cookies_return(t)
       \/ \E ok \in BOOLEAN, found \in FoundChoices : refresh_browse(t, ok, found)
       \/ \E ok \in BOOLEAN : refresh_store(t, ok)
       \/ finish(t)

GetSpec == Init /\ [][GetNext]_vars

\* The callers use the CookieManager directly: get_cookies(), whose result
\* they may change, and force_refresh() (the CLI's refresh command).
CacheNext ==
  \/ Tick
  \/ \E t \in Threads :
       \/ call_get_cookies(t)
       \/ call_force_refresh(t)
       \/ get_cookies(t)
       \/ get_cookies_return(t)
       \/ force_refresh(t)
       \/ force_refresh_return(t)
       \/ \E ok \in BOOLEAN, found \in FoundChoices : refresh_browse(t, ok, found)
       \/ \E ok \in BOOLEAN : refresh_store(t, ok)
       \/ caller_modifies(t)
       \/ finish(t)

CacheSpec == Init /\ [][CacheNext]_vars


\* ------------------------------------------------------------- claims

Is403(r) == r.kind = "http" /\ r.status = 403
IsOtherStatus(r) == r.kind = "http" /\ r.status \notin {200, 403}

\* The first n answers of the call were all 403.
AllForbidden(h, n) == Len(h) >= n /\ \A i \in 1..n : Is403(h[i])

\* The call's first request was answered 403 and its second one was not.
RetriedOnce(h) == Len(h) >= 2 /\ Is403(h[1]) /\ ~Is403(h[2])

\* Refresh executions thread t ran during its current _fetch_page call.
Executed(t) == call[t].nGetExec + call[t].nForceExec

InRefresh(t) == pc[t] \in {"r_launch", "r_loop"}
InWith(t) == pc[t] \in {"r_launch", "r_loop", "get_ret", "force_ret"}

\* C1 as stated: a call whose first two requests are both answered 403 has
\* failed with Forbidden and issued no third request.
C1_TwoForbiddenFail ==
  \A t \in Threads :
    AllForbidden(call[t].resp, 2) =>
      /\ Len(call[t].resp) = 2
      /\ pc[t] = "f_done"
      /\ outcome[t].kind = "Forbidden"

\* C1, amended: the budget is _max_retries = 2.  A call that starts with the
\* retry counter at 0 and has no concurrent caller never issues more than
\* _max_retries + 1 requests; when its first _max_retries + 1 requests are all
\* answered 403 it has failed with Forbidden (PermissionError); after only
\* two 403s it is still running (it refreshes and sends a third request).
C1_BudgetForbiddenFail ==
  \A t \in Threads :
    call[t].rc0 = 0 =>
      /\ Len(call[t].resp) <= _max_retries + 1
      /\ AllForbidden(call[t].resp, _max_retries + 1) =>
           /\ pc[t] = "f_done"
           /\ outcome[t] = Raised("Forbidden", "PermissionError", 403)
      /\ (AllForbidden(call[t].resp, 2) /\ Len(call[t].resp) = 2) =>
           pc[t] \notin {"f_done", "op_done", "idle"}

C1_Witness ==
  \E t \in Threads :
    /\ call[t].rc0 = 0
    /\ pc[t] = "f_done"
    /\ Len(call[t].resp) = 3
    /\ AllForbidden(call[t].resp, 3)
    /\ outcome[t].kind = "Forbidden"

\* C2 as stated: a call answered 403 and then something else executed exactly
\* one refresh and issued exactly one retried request.
C2_OneRefreshExecuted ==
  \A t \in Threads :
    RetriedOnce(call[t].resp) =>
      /\ Len(call[t].resp) = 2
      /\ Executed(t) = 1

\* C2, amended: a call (no concurrent caller) answered 403 and then something
\* else has ended after exactly one force_refresh() call and exactly one
\* retried request.  That force_refresh() executes at most one refresh (none
\* in the cooldown) and get_cookies at most one, so the call executes zero,
\* one or two refreshes.
C2_OneForceRefreshCall ==
  \A t \in Threads :
    RetriedOnce(call[t].resp) =>
      /\ pc[t] = "f_done"
      /\ Len(call[t].resp) = 2
      /\ call[t].nForce = 1
      /\ call[t].nForceExec <= 1
      /\ call[t].nGetExec <= 1

C2_Witness ==
  \E t \in Threads :
    /\ RetriedOnce(call[t].resp)
    /\ pc[t] = "f_done"
    /\ call[t].nForce = 1
    /\ Executed(t) = 0

\* C3 as stated: a force_refresh() called less than the cooldown after a
\* refresh execution completed executes no refresh.
C3_CooldownAfterAnyRefresh ==
  \A t \in Threads :
    (pc[t] = "r_launch" /\ frame[t].rfrom = "force" /\ last.n > 0) =>
      now - last.at >= min_refresh_interval

\* C4: when the callers only call get_cookies(), on a cache that starts
\* empty, one refresh is executed in total, and every caller gets the dict
\* that refresh produced (the browser's cookies or the fallback).
C4_OneRefreshForGets ==
  /\ execs <= 1
  /\ \A t \in Threads :
       pc[t] = "op_done" =>
         /\ execs = 1
         /\ last.n = 1
         /\ result[t].ret = "ok"
         /\ result[t].value = cookies
         /\ result[t].value \in
              {Fallback(env)}
                \cup {WithTokens(ThemeOnly, f, 1) : f \in FoundChoices}

C4_Witness ==
  \E t, u \in Threads :
    /\ t # u
    /\ pc[t] = "op_done"
    /\ pc[u] = "op_done"
    /\ ncalls = 2
    /\ execs = 1
    /\ result[t].value = result[u].value

\* C5: at most one thread is inside _refresh_cookies.
C5_OneRefreshAtATime ==
  Cardinality({t \in Threads : InRefresh(t)}) <= 1

C5_Witness ==
  \E t, u \in Threads :
    /\ InRefresh(t)
    /\ pc[u] \in {"get_lock", "force_lock"}
    /\ frame[u].op = "lookup"

\* C6 as stated: a call that got a status outside {200, 403} failed with
\* UpstreamError carrying the status, and executed no refresh at all.
C6_NoRefreshAtAll ==
  \A t \in Threads :
    LET h == call[t].resp IN
      (Len(h) >= 1 /\ IsOtherStatus(h[Len(h)])) =>
        /\ pc[t] = "f_done"
        /\ outcome[t].kind = "UpstreamError"
        /\ outcome[t].status = h[Len(h)].status
        /\ Executed(t) = 0

\* C6, amended: a call (no concurrent caller) that got a status outside
\* {200, 403} has failed with UpstreamError (ConnectionError) carrying that
\* status, and that answer triggered no refresh: force_refresh() was called
\* once per earlier 403 of the call and never for this answer.  Refreshes may
\* have executed earlier in the call: one by get_cookies on an empty cache,
\* one per force_refresh() outside the cooldown.
C6_UpstreamError ==
  \A t \in Threads :
    LET h == call[t].resp IN
      (Len(h) >= 1 /\ IsOtherStatus(h[Len(h)])) =>
        /\ pc[t] = "f_done"
        /\ outcome[t].kind = "UpstreamError"
        /\ outcome[t].exc = "ConnectionError"
        /\ outcome[t].status = h[Len(h)].status
        /\ \A i \in 1..(Len(h) - 1) : Is403(h[i])
        /\ call[t].nForce = Len(h) - 1
        /\ call[t].nForceExec <= call[t].nForce
        /\ call[t].nGetExec <= 1

C6_Witness ==
  \E t \in Threads :
    LET h == call[t].resp IN
      /\ pc[t] = "f_done"
      /\ Len(h) = 2
      /\ IsOtherStatus(h[2])
      /\ h[2].status = 404
      /\ outcome[t].status = 404
      /\ call[t].nForceExec = 1

\* C7: a refresh that failed has left exactly the theme and the three
\* environment values in the dict, and control is back in get_cookies or
\* force_refresh, which still holds the lock and releases it on return: the
\* lock is held exactly by a thread inside one of the two with blocks, and no
\* operation ends with an error of the refresh.
C7_RefreshFailureFallsBack ==
  \A t \in Threads :
    /\ (pc[t] \in {"get_ret", "force_ret"} /\ frame[t].failed) =>
         /\ DOMAIN cookies = {"theme"} \cup TokenNames
         /\ cookies["theme"] = Dark
         /\ \A n \in TokenNames : cookies[n] = env[n]
         /\ ~last.ok
    /\ lock = t <=> InWith(t)
    /\ result[t].exc \in {"none", "PermissionError", "ConnectionError",
                          "RequestsError"}

C7_Witness ==
  \E t \in Threads :
    /\ pc[t] = "force_ret"
    /\ frame[t].failed
    /\ last.stamped
    /\ lock = t

\* C8 as stated: a lookup operation during which a page fetch failed does not
\* return a normal result.
C8_EveryFailureSurfaced ==
  \A t \in Threads :
    (pc[t] = "op_done" /\ frame[t].op \in LookupOps /\ frame[t].fails # <<>>)
      => result[t].ret = "raise"

\* C8, amended: a failed fetch of the vehicle page or of the profile page is
\* surfaced to the operation's caller as that failure; a failed fetch of the
\* profile's vehicle list (inside lookup_owner_profile, so also in
\* lookup_owner_by_regnr and lookup_address_vehicles) is swallowed and the
\* operation returns a normal result.
C8_PageFailuresSurfaced ==
  \A t \in Threads :
    (pc[t] = "op_done" /\ frame[t].op \in LookupOps) =>
      LET fs == frame[t].fails
          pages == {i \in 1..Len(fs) : fs[i].stage # "htmx"}
      IN /\ pages # {} =>
              /\ Len(fs) = 1
              /\ result[t].ret = "raise"
              /\ result[t].kind = fs[1].kind
         /\ pages = {} => result[t].ret = "ok"

C8_Witness ==
  \E t \in Threads :
    /\ pc[t] = "op_done"
    /\ frame[t].op = "address"
    /\ frame[t].fails = <<[stage |-> "htmx", kind |-> "Forbidden"]>>
    /\ result[t].ret = "ok"

\* C9: an endpoint answers 403 exactly when its operation failed with
\* Forbidden, 502 exactly when it failed with UpstreamError or Timeout, and
\* 200 when it returned.
C9_StatusMapping ==
  \A t \in Threads :
    (pc[t] = "op_done" /\ frame[t].op \in LookupOps) =>
      /\ result[t].http = 403 <=> result[t].kind = "Forbidden"
      /\ result[t].http = 502 <=> result[t].kind \in {"UpstreamError", "Timeout"}
      /\ result[t].ret = "ok" => result[t].http = 200

C9_Witness ==
  \E t \in Threads :
    /\ pc[t] = "op_done"
    /\ frame[t].op = "owner"
    /\ frame[t].stage = "profile"
    /\ result[t].kind = "Timeout"
    /\ result[t].http = 502

\* C10 as stated (its outcomes): a _fetch_page call that has ended, ended
\* with Success, Forbidden, UpstreamError or Timeout.
C10_FourOutcomes ==
  \A t \in Threads :
    pc[t] = "f_done" =>
      outcome[t].kind \in {"Success", "Forbidden", "UpstreamError", "Timeout"}

\* Thread u holds a copy get_cookies returned to it: the caller of a direct
\* get_cookies() call, or _fetch_page about to send its request.
HasSnapshot(u) ==
  \/ pc[u] = "op_done" /\ frame[u].op = "get"
  \/ pc[u] = "request"

Snapshot(u) ==
  IF frame[u].op = "get" THEN result[u].value ELSE frame[u].cookies

\* C11 as stated: a get_cookies call made while refresh execution k was in
\* progress returns the dict as it was before execution k started, and no
\* call returns a dict an execution has reset and not yet filled.
C11_ReturnsPreviousSet ==
  \A u \in Threads :
    HasSnapshot(u) =>
      /\ ~frame[u].partial
      /\ (frame[u].during > 0 /\ last.n = frame[u].during)
           => Snapshot(u) = last.pre

\* C11, amended: a get_cookies call made while refresh execution k is in
\* progress returns only after execution k has completed, with the dict as
\* the completed executions left it (the dict execution k left, if no later
\* execution has touched it); no call returns a dict that an execution has
\* reset and not yet filled.
C11_WaitsForRefresh ==
  \A u \in Threads :
    HasSnapshot(u) =>
      /\ ~frame[u].partial
      /\ frame[u].during > 0 =>
           /\ last.n >= frame[u].during
           /\ (last.n = frame[u].during /\ ~BeingFilled)
                => Snapshot(u) = cookies

\* A call made during a refresh has returned the dict that refresh left,
\* which is not the one held before it.
C11_Witness ==
  \E u \in Threads :
    /\ HasSnapshot(u)
    /\ frame[u].during > 0
    /\ last.n = frame[u].during
    /\ Snapshot(u) = cookies
    /\ Snapshot(u) # last.pre
    /\ ~IsEmpty(last.pre)

Tokens(c) == DOMAIN c \ {"theme"}

\* C12: right after a refresh execution the dict holds the theme and
\* nothing but what that execution obtained: the allow-listed cookies of its
\* own browser session, or the three environment values of its fallback.  A
\* value the dict held before is in it only if this execution produced it.
C12_ReplacedWholesale ==
  \A t \in Threads :
    pc[t] \in {"get_ret", "force_ret"} =>
      /\ "theme" \in DOMAIN cookies /\ cookies["theme"] = Dark
      /\ Tokens(cookies) \subseteq TokenNames
      /\ \A n \in Tokens(cookies) :
           /\ cookies[n] = IF frame[t].failed THEN env[n] ELSE BrowserTok(last.n)
           /\ (n \in DOMAIN last.pre /\ cookies[n] = last.pre[n])
                => (frame[t].failed /\ cookies[n] = env[n])

\* A successful refresh has replaced a dict that held tokens, and a token
\* name the old dict had is gone.
C12_Witness ==
  \E t \in Threads :
    /\ pc[t] = "force_ret"
    /\ ~frame[t].failed
    /\ Tokens(last.pre) # {}
    /\ Tokens(last.pre) \ Tokens(cookies) # {}
    /\ Tokens(cookies) # {}

Is200(r) == r.kind = "http" /\ r.status = 200

\* C13: a _fetch_page call whose last request was answered 200 returns the
\* body of that answer unchanged, on the first request as on a retried one,
\* and leaves the retry counter at 0.
C13_SuccessReturnsBody ==
  \A t \in Threads :
    (pc[t] = "f_done" /\ Is200(call[t].resp[Len(call[t].resp)])) =>
      /\ outcome[t].kind = "Success"
      /\ outcome[t].body = call[t].resp[Len(call[t].resp)].body
      /\ retry_count = 0

\* A retried request was answered 200 and its body was returned.
C13_Witness ==
  \E t \in Threads :
    /\ pc[t] = "f_done"
    /\ Len(call[t].resp) = 2
    /\ Is403(call[t].resp[1])
    /\ Is200(call[t].resp[2])
    /\ outcome[t].body = "page_plain"
    /\ call[t].nForceExec = 1

\* The number of answers 403 among the answers of a call.
RECURSIVE Count403(_)
Count403(h) ==
  IF h = <<>> THEN 0
  ELSE (IF Is403(h[1]) THEN 1 ELSE 0) + Count403(Tail(h))

\* C14 as stated: on the client shared by the server's threads, a
\* _fetch_page call that began with the retry counter at 0 issues at most
\* _max_retries + 1 requests, and ends Forbidden only after _max_retries + 1
\* of its own requests were answered 403.
C14_BudgetPerCall ==
  \A t \in Threads :
    call[t].rc0 = 0 =>
      /\ Len(call[t].resp) <= _max_retries + 1
      /\ (pc[t] = "f_done" /\ outcome[t].kind = "Forbidden")
           => Count403(call[t].resp) = _max_retries + 1

\* C15 as stated: with calls that do not overlap, the retry counter is 0
\* whenever no _fetch_page call is in progress, whatever the outcome of the
\* calls that have ended, so the next call starts with the full budget.
C15_CounterZeroBetweenCalls ==
  /\ (\A t \in Threads : pc[t] \in {"idle", "f_done", "op_done"})
       => retry_count = 0
  /\ \A t \in Threads : call[t].rc0 = 0

\* C16 as stated: a refresh execution has advanced last_refresh if and only
\* if the dict it left came from the browser session; an execution that
\* failed at any step has left last_refresh as it was.
C16_StampedIffBrowser ==
  last.n > 0 => ((last_refresh # last.stamp0) <=> last.ok)

\* C17: once a refresh execution has completed the dict is never empty
\* again (it holds the theme), so only the first execution of the process
\* can have been started by get_cookies: every execution that runs after a
\* completed one was started by force_refresh.
C17_GetRefreshesAtMostOnce ==
  /\ last.n > 0 => (DOMAIN cookies # {} /\ "theme" \in DOMAIN cookies)
  /\ \A t \in Threads :
       InRefresh(t) =>
         /\ frame[t].rfrom = "get" => (frame[t].gen = 1 /\ last.n = 0)
         /\ last.n > 0 => frame[t].rfrom = "force"

\* A thread whose get_cookies ran the first refresh now runs a second one,
\* started by force_refresh; the dict holds the theme only.
C17_Witness ==
  \E t \in Threads :
    /\ InRefresh(t)
    /\ frame[t].rfrom = "force"
    /\ call[t].nGetExec = 1
    /\ last.n = 1
    /\ cookies = ThemeOnly

\* C18: the retried request of a _fetch_page call is sent after the
\* force_refresh() call made for the rejected request has returned, with the
\* cookies get_cookies() returned after that: the dict the cache held then.
\* When no refresh execution ran between the two get_cookies() calls
\* (force_refresh was skipped by the cooldown and no other caller
\* refreshed), these are the cookies of the rejected request.
C18_RetryRereadsCookies ==
  \A t \in Threads :
    (pc[t] = "request" /\ Len(call[t].resp) >= 1) =>
      /\ call[t].nForce = Len(call[t].resp)
      /\ frame[t].seen >= call[t].exF
      /\ execs = frame[t].seen => frame[t].cookies = cookies
      /\ frame[t].seen = call[t].ex0 => frame[t].cookies = call[t].prev

\* A call is about to send its second retry: its first force_refresh ran a
\* refresh, the second one was skipped by the cooldown, and the request
\* carries the cookies of the request rejected before it.
C18_Witness ==
  \E t \in Threads :
    /\ pc[t] = "request"
    /\ Len(call[t].resp) = 2
    /\ call[t].nForceExec = 1
    /\ frame[t].seen = call[t].ex0
    /\ frame[t].cookies = call[t].prev
    /\ Tokens(frame[t].cookies) # {}

\* C19: the mapping get_cookies() returned to a caller is the caller's own:
\* it holds what the cache held when get_cookies() returned, changed only
\* by that caller, whatever refresh executions ran and whatever other
\* callers did to their mappings since; and the cache never holds a value a
\* caller has put into a returned mapping.
C19_OwnSnapshot ==
  /\ \A u \in Threads :
       (pc[u] = "op_done" /\ frame[u].op = "get") =>
         result[u].value = IF result[u].touched
                             THEN Modified(result[u].got)
                             ELSE result[u].got
  /\ \A n \in DOMAIN cookies : cookies[n] # CallerTok

\* A caller has changed the mapping it was handed and a refresh has run
\* since get_cookies() returned: the mapping is the old dict with the
\* caller's change, the cache holds the refreshed dict without it.
C19_Witness ==
  \E t \in Threads :
    /\ pc[t] = "op_done"
    /\ frame[t].op = "get"
    /\ result[t].touched
    /\ result[t].value = Modified(result[t].got)
    /\ last.n = 2
    /\ last.pre = result[t].got
    /\ Tokens(cookies) # {}
    /\ cookies # result[t].got

====
